---- MODULE Spec2Model ----
(***************************************************************************)
(* Model of ak_survey_results.py (class AKSurveyResults): the identifier   *)
(* normalizer, the schema comparator, the table rebuilder, the row merger, *)
(* the layout registry and the update scanner, over the relational state   *)
(* they read and write.                                                     *)
(*                                                                          *)
(* Field names are sequences of one-character strings, so that slugify,    *)
(* str.isdigit, list.sort and the duplicate suffix are computed character   *)
(* by character.  Field values and cells are strings.                       *)
(***************************************************************************)
EXTENDS Integers, Sequences, FiniteSets, Bags, TLC

VARIABLES core_action, core_actionfield, pages, tables, now, last, arg

vars == <<core_action, core_actionfield, pages, tables, now, last, arg>>

dbvars == <<core_action, core_actionfield, pages, tables, now>>

---------------------------------------------------------------------------
(* Bounds of the model *)

MaxBatch == 4

\* raw action records in the database
MaxActions == 2

\* the engine's clock runs from 1 to MaxTime; 0 is 1900-01-01 00:00:00
MaxTime == 2

\* the largest count passed to surveys_that_need_updating
MaxLimit == 2

---------------------------------------------------------------------------
(* Characters and Python's str operations *)

LowerLetters ==
    <<"a","b","c","d","e","f","g","h","i","j","k","l","m",
      "n","o","p","q","r","s","t","u","v","w","x","y","z">>

UpperLetters ==
    <<"A","B","C","D","E","F","G","H","I","J","K","L","M",
      "N","O","P","Q","R","S","T","U","V","W","X","Y","Z">>

DigitChars == <<"0","1","2","3","4","5","6","7","8","9">>

IndexOf(seq, c) == CHOOSE i \in DOMAIN seq : seq[i] = c

InSeq(seq, c) == \E i \in DOMAIN seq : seq[i] = c

\* ord(c) for the ASCII characters of the model
Ord(c) ==
    IF InSeq(LowerLetters, c) THEN 96 + IndexOf(LowerLetters, c)
    ELSE IF InSeq(UpperLetters, c) THEN 64 + IndexOf(UpperLetters, c)
    ELSE IF InSeq(DigitChars, c) THEN 47 + IndexOf(DigitChars, c)
    ELSE IF c = " " THEN 32
    ELSE IF c = "'" THEN 39
    ELSE IF c = "," THEN 44
    ELSE IF c = "_" THEN 95
    ELSE 0

\* str.isdigit on one ASCII character
IsDigit(c) == InSeq(DigitChars, c)

IsAlNum(c) == InSeq(LowerLetters, c) \/ InSeq(UpperLetters, c) \/ IsDigit(c)

\* str.lower on one character
LowerChar(c) ==
    IF InSeq(UpperLetters, c) THEN LowerLetters[IndexOf(UpperLetters, c)] ELSE c

Lower(s) == [i \in DOMAIN s |-> LowerChar(s[i])]

\* Python's < on str: lexicographic by code point, a proper prefix is smaller
RECURSIVE StrLess(_, _)
StrLess(s, t) ==
    IF t = <<>> THEN FALSE
    ELSE IF s = <<>> THEN TRUE
    ELSE IF Ord(Head(s)) # Ord(Head(t)) THEN Ord(Head(s)) < Ord(Head(t))
    ELSE StrLess(Tail(s), Tail(t))

\* list.sort() of a set of distinct strings
RECURSIVE SortedNames(_)
SortedNames(S) ==
    IF S = {} THEN <<>>
    ELSE LET m == CHOOSE x \in S : \A y \in S \ {x} : StrLess(x, y)
         IN  <<m>> \o SortedNames(S \ {m})

\* str(n) for n >= 0
RECURSIVE Str(_)
Str(n) ==
    IF n < 10 THEN <<DigitChars[n + 1]>>
    ELSE Str(n \div 10) \o <<DigitChars[(n % 10) + 1]>>

\* list.count(x)
Count(seq, x) == Cardinality({i \in DOMAIN seq : seq[i] = x})

SeqToSet(seq) == {seq[i] : i \in DOMAIN seq}

---------------------------------------------------------------------------
(* Identifier normalizer *)

\* the words of a text: maximal runs of alphanumeric characters, after the
\* apostrophes are removed (Slugify.sanitize)
RECURSIVE SlugWords(_, _, _)
SlugWords(s, cur, acc) ==
    IF s = <<>> THEN (IF cur = <<>> THEN acc ELSE Append(acc, cur))
    ELSE IF Head(s) = "'" THEN SlugWords(Tail(s), cur, acc)
    ELSE IF IsAlNum(Head(s)) THEN SlugWords(Tail(s), Append(cur, Head(s)), acc)
    ELSE SlugWords(Tail(s), <<>>, IF cur = <<>> THEN acc ELSE Append(acc, cur))

RECURSIVE JoinWords(_, _)
JoinWords(words, sep) ==
    IF words = <<>> THEN <<>>
    ELSE IF Len(words) = 1 THEN words[1]
    ELSE words[1] \o sep \o JoinWords(Tail(words), sep)

\* Slugify(to_lower=True) with separator '_'
custom_slugify(name) == Lower(JoinWords(SlugWords(name, <<>>, <<>>), <<"_">>))

reserved_keywords ==
    { <<"u","n","i","o","n">>,
      <<"p","e","r","m","i","s","s","i","o","n","s">>,
      <<"s","e","l","e","c","t">>,
      <<"e","l","s","e">>,
      <<"w","h","e","n">>,
      <<"w","h","e","r","e">>,
      <<"o","r","d","e","r">>,
      <<"p","r","i","m","a","r","y">>,
      <<"i","d","e","n","t","i","t","y">>,
      <<"j","o","i","n">> }

unnamed_field == <<"u","n","n","a","m","e","d","_","f","i","e","l","d">>

\* column_name without the q_ prefix for a leading digit
column_name_no_prefix(column) ==
    LET c1 == IF column = <<>> THEN unnamed_field ELSE column
    IN  IF c1 \in reserved_keywords THEN c1 \o <<"_","q">> ELSE c1

\* the name of one column before the duplicate suffix
column_name(column) ==
    LET c1 == IF column = <<>> THEN unnamed_field ELSE column
        c2 == IF c1 \in reserved_keywords THEN c1 \o <<"_","q">> ELSE c1
    IN  IF IsDigit(c2[1]) THEN <<"q","_">> \o c2 ELSE c2

\* the entry appended for a column, given the entries appended so far
deduped_entry(deduped, column) ==
    LET name  == column_name(column)
        count == Count(deduped, name)
    IN  IF count > 0 THEN name \o Str(count + 1) ELSE name

RECURSIVE deduped_from(_, _)
deduped_from(columns, deduped) ==
    IF columns = <<>> THEN deduped
    ELSE deduped_from(Tail(columns),
                      Append(deduped, deduped_entry(deduped, Head(columns))))

deduped_columns(columns) == deduped_from(columns, <<>>)

sluggified_field_names(field_value_names) ==
    deduped_columns([i \in DOMAIN field_value_names |->
                        custom_slugify(field_value_names[i])])


---------------------------------------------------------------------------
(* Strings stored in the database *)

\* str.join
RECURSIVE Join(_, _)
Join(list, sep) ==
    IF list = <<>> THEN <<>>
    ELSE IF Len(list) = 1 THEN list[1]
    ELSE list[1] \o sep \o Join(Tail(list), sep)

\* str.split(sep) for a one-character separator: ''.split(',') is ['']
RECURSIVE SplitFrom(_, _, _, _)
SplitFrom(s, sep, cur, acc) ==
    IF s = <<>> THEN Append(acc, cur)
    ELSE IF Head(s) = sep THEN SplitFrom(Tail(s), sep, <<>>, Append(acc, cur))
    ELSE SplitFrom(Tail(s), sep, Append(cur, Head(s)), acc)

Split(s, sep) == SplitFrom(s, sep, <<>>, <<>>)

---------------------------------------------------------------------------
(* Bags of rows *)

NoRows == SetToBag({})

RowsWhere(B, P(_)) == [r \in {x \in DOMAIN B : P(x)} |-> B[r]]

RECURSIVE SumCounts(_, _)
SumCounts(B, S) ==
    IF S = {} THEN 0
    ELSE LET x == CHOOSE y \in S : TRUE
         IN  B[x] + SumCounts(B, S \ {x})

RowCount(B) == SumCounts(B, DOMAIN B)

RowsUpdated(B, f(_)) ==
    [r \in {f(x) : x \in DOMAIN B} |-> SumCounts(B, {x \in DOMAIN B : f(x) = r})]

---------------------------------------------------------------------------
(* The database *)

\* 1900-01-01 00:00:00
Epoch == 0

\* ak.core_page (id, type): the page catalog
core_page == (1 :> "Donation") @@ (2 :> "Survey") @@ (3 :> "Survey")

\* page identifiers a caller may pass: 0 has no catalog row
PageIds == 0..3

\* settings.COLUMN_EXCLUDES
COLUMN_EXCLUDES == <<>>

\* SQL NULL in a text cell, in an integer column and in a timestamp column
NULL == "NULL"

NullId == 0 - 1

NullTime == 0 - 1

\* LIMIT of actions_query, scaled down from 10000 so that a page can hold
\* more pending records than one pass fetches
FetchLimit == 2

NoTable == [exists |-> FALSE, columns |-> <<>>, rows |-> NoRows]

action_id_column == <<"a","c","t","i","o","n","_","i","d">>

\* rows of survey_results.pages for one page
RegistryRows(page_id) == {r \in DOMAIN pages : r.page_id = page_id}

ActionsOfPage(page_id) == {a \in core_action : a.page_id = page_id}

\* the rows of survey_info_query
SurveyInfoRows(page_id) ==
    IF page_id \notin DOMAIN core_page THEN {}
    ELSE IF RegistryRows(page_id) = {}
         THEN {[type |-> core_page[page_id], page_id |-> NullId, column_list |-> <<>>,
                last_refresh |-> NullTime,
                action_count |-> Cardinality(ActionsOfPage(page_id))]}
         ELSE {[type |-> core_page[page_id], page_id |-> r.page_id,
                column_list |-> r.column_list, last_refresh |-> r.last_refresh,
                action_count |-> Cardinality(ActionsOfPage(page_id))
                                    * SumCounts(pages, {x \in DOMAIN pages : x = r})]
               : r \in RegistryRows(page_id)}

\* what survey_refresh_info does with the first row of its query
RefreshInfoOf(page_id, result) ==
    IF result.type # "Survey" THEN [status |-> "PageNotSurvey"]
    ELSE IF result.page_id = NullId \/ result.page_id = 0 THEN [status |-> "PageNotLoaded"]
    ELSE IF ~tables[page_id].exists THEN [status |-> "DatabaseError"]
    ELSE [status |-> "ok", type |-> result.type, page_id |-> result.page_id,
          column_list |-> result.column_list, last_refresh |-> result.last_refresh,
          action_count |-> result.action_count,
          saved_count |-> RowCount(tables[page_id].rows)]

\* the outcomes survey_refresh_info can have: a result or a raised exception
survey_refresh_info(page_id) ==
    IF SurveyInfoRows(page_id) = {} THEN {[status |-> "PageNotFound"]}
    ELSE {RefreshInfoOf(page_id, result) : result \in SurveyInfoRows(page_id)}

\* the orders in which the records of S can be listed by created_at ASC
RECURSIVE ByCreatedAt(_)
ByCreatedAt(S) ==
    IF S = {} THEN <<>>
    ELSE LET a == CHOOSE x \in S : \A y \in S \ {x} :
                      \/ x.created_at < y.created_at
                      \/ (x.created_at = y.created_at /\ x.id < y.id)
         IN  <<a>> \o ByCreatedAt(S \ {a})

\* the lists actions_query can return: the first FetchLimit records by
\* created_at, any of them among records of equal created_at
recent_actions_for_survey(page_id, since) ==
    LET matching == {a \in core_action : a.page_id = page_id /\ a.created_at >= since}
    IN  IF Cardinality(matching) <= FetchLimit THEN {ByCreatedAt(matching)}
        ELSE {ByCreatedAt(S) : S \in {T \in SUBSET matching :
                 /\ Cardinality(T) = FetchLimit
                 /\ \A a \in T, b \in matching \ T : a.created_at <= b.created_at}}

RECURSIVE max_created_at_from(_, _)
max_created_at_from(actions, max) ==
    IF actions = <<>> THEN max
    ELSE max_created_at_from(Tail(actions),
             IF Head(actions).created_at > max THEN Head(actions).created_at ELSE max)

max_created_at(actions) == max_created_at_from(actions, Epoch)

excludes == SeqToSet(Split(COLUMN_EXCLUDES, ","))

field_values_for_actions(action_ids) ==
    LET kept == SelectSeq(core_actionfield,
                    LAMBDA af : af.parent_id \in SeqToSet(action_ids)
                                /\ af.name \notin excludes)
    IN  [i \in DOMAIN kept |-> [action_id |-> kept[i].parent_id,
                                name |-> kept[i].name, value |-> kept[i].value]]

\* dict.get(key, default)
DictGet(d, key, default) == IF key \in DOMAIN d THEN d[key] ELSE default

DictSet(d, key, value) ==
    [k \in DOMAIN d \cup {key} |-> IF k = key THEN value ELSE d[k]]

EmptyDict == [k \in {} |-> ""]

\* dict(zip(keys, values))
DictZip(keys, values) ==
    LET n == IF Len(keys) < Len(values) THEN Len(keys) ELSE Len(values)
    IN  [k \in {keys[i] : i \in 1..n} |->
            values[CHOOSE i \in 1..n : keys[i] = k /\ \A j \in 1..n : keys[j] = k => j <= i]]

\* one pass of the loop over field_values
by_action_step(by_action, name_map, field_value) ==
    LET action_id == field_value.action_id
        row    == DictGet(by_action, action_id, EmptyDict)
        column == DictGet(name_map, field_value.name, <<>>)
    IN  DictSet(by_action, action_id,
            IF DictGet(row, column, "") = ""
            THEN DictSet(row, column, field_value.value)
            ELSE DictSet(row, column, row[column] \o "; " \o field_value.value))

RECURSIVE by_action_from(_, _, _)
by_action_from(field_values, name_map, by_action) ==
    IF field_values = <<>> THEN by_action
    ELSE by_action_from(Tail(field_values), name_map,
                        by_action_step(by_action, name_map, Head(field_values)))

field_values_by_action(field_values, name_map, action_ids) ==
    by_action_from(field_values, name_map,
                   [action_id \in SeqToSet(action_ids) |-> EmptyDict])

unique_field_names(field_values) ==
    SortedNames({field_values[i].name : i \in DOMAIN field_values} \ {<<>>})

\* survey_table_needs_recreating that finds every loaded table up to date
never_needs_recreating(page_id, column_list) ==
    {IF refresh_info.status # "ok" THEN refresh_info
     ELSE [status |-> "ok", result |-> FALSE]
     : refresh_info \in survey_refresh_info(page_id)}

\* survey_table_needs_recreating with the set difference taken the other way
needs_recreating_reversed(page_id, column_list) ==
    {IF refresh_info.status # "ok" THEN refresh_info
     ELSE [status |-> "ok",
           result |-> SeqToSet(Split(refresh_info.column_list, ","))
                        \ SeqToSet(column_list) # {}]
     : refresh_info \in survey_refresh_info(page_id)}

\* the outcomes of survey_table_needs_recreating: a boolean or an exception
survey_table_needs_recreating(page_id, column_list) ==
    {IF refresh_info.status # "ok" THEN refresh_info
     ELSE [status |-> "ok",
           result |-> SeqToSet(column_list)
                        \ SeqToSet(Split(refresh_info.column_list, ",")) # {}]
     : refresh_info \in survey_refresh_info(page_id)}

\* column_list_for_survey over the field values of the newest record only
column_list_for_newest_action(page_id) ==
    LET ids == {a.id : a \in {x \in ActionsOfPage(page_id) :
                                \A y \in ActionsOfPage(page_id) : y.id <= x.id}}
        field_names == {core_actionfield[i].name : i \in
                          {j \in DOMAIN core_actionfield :
                              /\ core_actionfield[j].parent_id \in ids
                              /\ core_actionfield[j].name \notin excludes}}
    IN  sluggified_field_names(SortedNames(field_names))

column_list_for_survey(page_id) ==
    LET ids == {a.id : a \in ActionsOfPage(page_id)}
        field_names == {core_actionfield[i].name : i \in
                          {j \in DOMAIN core_actionfield :
                              /\ core_actionfield[j].parent_id \in ids
                              /\ core_actionfield[j].name \notin excludes}}
    IN  sluggified_field_names(SortedNames(field_names))

HasDuplicates(seq) == \E i, j \in DOMAIN seq : i # j /\ seq[i] = seq[j]

\* DROP TABLE IF EXISTS, CREATE TABLE, commit: the engine refuses a column
\* list that names a column twice, and then nothing is committed
recreate_survey_table(page_id, column_list) ==
    IF HasDuplicates(<<action_id_column>> \o column_list)
    THEN [status |-> "DatabaseError", tables |-> tables]
    ELSE [status |-> "ok",
          tables |-> [tables EXCEPT ![page_id] =
                        [exists |-> TRUE, columns |-> column_list, rows |-> NoRows]]]

\* insert_rows_from_field_values without the DELETE
insert_rows_without_delete(page_id, field_values, column_names) ==
    LET table == tables[page_id]
        row(action_id) ==
            [action_id |-> action_id,
             cells |-> [c \in SeqToSet(table.columns) |->
                          IF c \in SeqToSet(column_names)
                          THEN DictGet(field_values[action_id], c, "")
                          ELSE NULL]]
        inserted == [table EXCEPT !.rows =
                      table.rows (+) SetToBag({row(a) : a \in DOMAIN field_values})]
    IN  IF \/ ~table.exists
           \/ HasDuplicates(<<action_id_column>> \o column_names)
           \/ ~(SeqToSet(column_names) \subseteq SeqToSet(table.columns))
        THEN [status |-> "DatabaseError", tables |-> tables]
        ELSE [status |-> "ok", tables |-> [tables EXCEPT ![page_id] = inserted]]

\* DELETE, commit, INSERT, commit: the engine refuses an insert that names a
\* column twice or names a column the table does not have, after the delete
\* is committed
insert_rows_from_field_values(page_id, field_values, column_names) ==
    LET table == tables[page_id]
        action_ids == DOMAIN field_values
        insert_columns == <<action_id_column>> \o column_names
        row(action_id) ==
            [action_id |-> action_id,
             cells |-> [c \in SeqToSet(table.columns) |->
                          IF c \in SeqToSet(column_names)
                          THEN DictGet(field_values[action_id], c, "")
                          ELSE NULL]]
        deleted == [table EXCEPT !.rows =
                      RowsWhere(table.rows, LAMBDA r : r.action_id \notin action_ids)]
        inserted == [deleted EXCEPT !.rows =
                      deleted.rows (+) SetToBag({row(a) : a \in action_ids})]
    IN  IF ~table.exists THEN [status |-> "DatabaseError", tables |-> tables]
        ELSE IF \/ HasDuplicates(insert_columns)
                \/ ~(SeqToSet(column_names) \subseteq SeqToSet(table.columns))
        THEN [status |-> "DatabaseError", tables |-> [tables EXCEPT ![page_id] = deleted]]
        ELSE [status |-> "ok", tables |-> [tables EXCEPT ![page_id] = inserted]]

\* add_to_pages_table with the engine's clock as the first timestamp
add_to_pages_table_at_now(registry, page_id, column_list) ==
    registry (+) SetToBag({[page_id |-> page_id,
                            column_list |-> Join(column_list, <<",">>),
                            last_refresh |-> now]})

add_to_pages_table(registry, page_id, column_list) ==
    registry (+) SetToBag({[page_id |-> page_id,
                            column_list |-> Join(column_list, <<",">>),
                            last_refresh |-> Epoch]})

\* delete_from_pages_table without its WHERE
delete_all_from_pages_table(registry, page_id) == NoRows

delete_from_pages_table(registry, page_id) ==
    RowsWhere(registry, LAMBDA r : r.page_id # page_id)

\* update_pages_table_refresh that inserts a row for a page that has none
update_pages_table_refresh_or_insert(registry, page_id, last_refresh) ==
    IF \E r \in DOMAIN registry : r.page_id = page_id
    THEN RowsUpdated(registry,
             LAMBDA r : IF r.page_id = page_id
                        THEN [r EXCEPT !.last_refresh = last_refresh] ELSE r)
    ELSE registry (+) SetToBag({[page_id |-> page_id, column_list |-> <<>>,
                                 last_refresh |-> last_refresh]})

\* last_refresh is a timestamp, or the engine's clock for 'GETDATE()'
update_pages_table_refresh(registry, page_id, last_refresh) ==
    RowsUpdated(registry,
        LAMBDA r : IF r.page_id = page_id
                   THEN [r EXCEPT !.last_refresh = last_refresh] ELSE r)

\* needs_update_query with last_refresh <= created_at
NeedsUpdateRowsNotStrict ==
    {[page_id |-> a.page_id, since |-> Epoch] : a \in
        {x \in core_action :
            /\ x.page_id \in DOMAIN core_page
            /\ core_page[x.page_id] = "Survey"
            /\ RegistryRows(x.page_id) = {}}}
    \cup
    {[page_id |-> j[1].page_id, since |-> j[2].last_refresh] : j \in
        {k \in core_action \X DOMAIN pages :
            /\ k[1].page_id \in DOMAIN core_page
            /\ core_page[k[1].page_id] = "Survey"
            /\ k[2].page_id = k[1].page_id
            /\ k[2].last_refresh <= k[1].created_at}}

\* the rows of needs_update_query before ORDER BY and LIMIT
NeedsUpdateRows ==
    {[page_id |-> a.page_id, since |-> Epoch] : a \in
        {x \in core_action :
            /\ x.page_id \in DOMAIN core_page
            /\ core_page[x.page_id] = "Survey"
            /\ RegistryRows(x.page_id) = {}}}
    \cup
    {[page_id |-> j[1].page_id, since |-> j[2].last_refresh] : j \in
        {k \in core_action \X DOMAIN pages :
            /\ k[1].page_id \in DOMAIN core_page
            /\ core_page[k[1].page_id] = "Survey"
            /\ k[2].page_id = k[1].page_id
            /\ k[2].last_refresh < k[1].created_at}}

\* ORDER BY p.id DESC (rows of one page, if there are several, by since)
RECURSIVE ByPageDesc(_)
ByPageDesc(S) ==
    IF S = {} THEN <<>>
    ELSE LET r == CHOOSE x \in S : \A y \in S \ {x} :
                      \/ x.page_id > y.page_id
                      \/ (x.page_id = y.page_id /\ x.since > y.since)
         IN  <<r>> \o ByPageDesc(S \ {r})

surveys_that_need_updating(count) ==
    LET ordered == ByPageDesc(NeedsUpdateRows)
    IN  SubSeq(ordered, 1, IF Len(ordered) < count THEN Len(ordered) ELSE count)

\* process_recent_actions_for_survey on the list of actions it fetched and
\* the outcome of its schema comparison: the new registry, the new tables
\* and what is returned or raised
process_actions(page_id, actions, needs_recreating) ==
    LET action_ids   == [i \in DOMAIN actions |-> actions[i].id]
        field_values == field_values_for_actions(action_ids)
        field_names  == unique_field_names(field_values)
        field_slugs  == sluggified_field_names(field_names)
        all_columns  == column_list_for_survey(page_id)
        recreated    == recreate_survey_table(page_id, all_columns)
        inserted     == insert_rows_from_field_values(page_id,
                            field_values_by_action(field_values,
                                DictZip(field_names, field_slugs), action_ids),
                            field_slugs)
        raised(status, tbl) ==
            [pages |-> pages, tables |-> tbl, returned |-> [outcome |-> status]]
    IN  IF needs_recreating.status = "PageNotLoaded"
        THEN IF recreated.status # "ok" THEN raised(recreated.status, recreated.tables)
             ELSE [pages |-> add_to_pages_table(pages, page_id, all_columns),
                   tables |-> recreated.tables,
                   returned |-> [outcome |-> "survey schema updated",
                                 reason |-> "survey schema missing"]]
        ELSE IF needs_recreating.status # "ok"
        THEN raised(needs_recreating.status, tables)
        ELSE IF needs_recreating.result
        THEN IF recreated.status # "ok" THEN raised(recreated.status, recreated.tables)
             ELSE [pages |-> add_to_pages_table(
                                 delete_from_pages_table(pages, page_id),
                                 page_id, all_columns),
                   tables |-> recreated.tables,
                   returned |-> [outcome |-> "survey schema updated",
                                 reason |-> "column(s) added"]]
        ELSE IF inserted.status # "ok" THEN raised(inserted.status, inserted.tables)
             ELSE [pages |-> update_pages_table_refresh(pages, page_id,
                                 max_created_at(actions)),
                   tables |-> inserted.tables,
                   returned |-> [outcome |-> "processed", actions |-> Len(actions)]]

\* the slugs process_recent_actions_for_survey derives from a list of actions
batch_slugs(actions) ==
    sluggified_field_names(unique_field_names(
        field_values_for_actions([i \in DOMAIN actions |-> actions[i].id])))

---------------------------------------------------------------------------
(* Inputs of the normalizer *)

RawNames ==
    { <<>>, <<" ">>, <<"a">>, <<"A">>, <<"a"," ">>, <<"a","2">>,
      <<"A","2">>, <<"a","3">>, <<"2">>, <<"2","a">>, <<"q"," ","2">>,
      <<"b">>, <<"W","H","E","R","E">>, <<"w","h","e","n">>,
      <<"s","e","l","e","c","t">>, <<"u","n","n","a","m","e","d"," ","f","i","e","l","d">> }

RECURSIVE SeqsUpTo(_, _)
SeqsUpTo(S, n) ==
    IF n = 0 THEN {<<>>}
    ELSE LET prev == SeqsUpTo(S, n - 1)
         IN  prev \cup {Append(s, x) : s \in {t \in prev : Len(t) = n - 1}, x \in S}

NoCall == [op |-> "none"]

EmptyDb ==
    /\ core_action = {}
    /\ core_actionfield = <<>>
    /\ pages = NoRows
    /\ tables = [p \in PageIds |-> NoTable]
    /\ now = 1

InitNormalizer ==
    /\ EmptyDb
    /\ last = NoCall
    /\ arg \in SeqsUpTo(RawNames, MaxBatch)

CallSluggify ==
    /\ last.op = "none"
    /\ last' = [op |-> "sluggified_field_names", result |-> sluggified_field_names(arg)]
    /\ UNCHANGED <<dbvars, arg>>

NextNormalizer == CallSluggify

SpecNormalizer == InitNormalizer /\ [][NextNormalizer]_vars

---------------------------------------------------------------------------
(* Inputs of field_values_by_action *)

\* field values in one fetched list
MaxFieldValues == 3

FetchedFieldValues ==
    [action_id : {1, 2}, name : {<<"a">>, <<"b">>}, value : {"", "x", "y"}]

InitByAction ==
    /\ EmptyDb
    /\ last = NoCall
    /\ arg \in SeqsUpTo(FetchedFieldValues, MaxFieldValues)

\* called as process_recent_actions_for_survey calls it
CallFieldValuesByAction ==
    /\ last.op = "none"
    /\ LET field_names == unique_field_names(arg)
           name_map == DictZip(field_names, sluggified_field_names(field_names))
       IN  last' = [op |-> "field_values_by_action", name_map |-> name_map,
                    returned |-> field_values_by_action(arg, name_map, <<1, 2>>)]
    /\ UNCHANGED <<dbvars, arg>>

NextByAction == CallFieldValuesByAction

SpecByAction == InitByAction /\ [][NextByAction]_vars

---------------------------------------------------------------------------
(* The database under load: records arrive, the clock advances, and the    *)
(* operations of AKSurveyResults are called one at a time                   *)

\* the field values a new record can come with
FieldBundles ==
    { <<>>,
      << [name |-> <<"a">>, value |-> "x"] >>,
      << [name |-> <<"A">>, value |-> "x"], [name |-> <<"a">>, value |-> "y"] >>,
      << [name |-> <<"a"," ">>, value |-> "x"] >>,
      << [name |-> <<"a">>, value |-> ""], [name |-> <<"a">>, value |-> "y"] >>,
      << [name |-> <<"b">>, value |-> "x"], [name |-> <<>>, value |-> "y"] >> }

\* columns a caller may ask the comparator about
CandidateColumns ==
    { <<>>, << <<"a">> >>, << <<"a","2">> >>, << <<"a">>, <<"b">> >> }

Init ==
    /\ EmptyDb
    /\ last = NoCall
    /\ arg = <<>>

\* a record and its field values are stored
AddAction(page_id, created_at, fields) ==
    /\ Cardinality(core_action) < MaxActions
    /\ LET id == Cardinality(core_action) + 1
       IN  /\ core_action' = core_action \cup
                 {[id |-> id, page_id |-> page_id, created_at |-> created_at]}
           /\ core_actionfield' = core_actionfield \o
                 [i \in DOMAIN fields |->
                     [parent_id |-> id, name |-> fields[i].name, value |-> fields[i].value]]
    /\ last' = [op |-> "add"]
    /\ UNCHANGED <<pages, tables, now, arg>>

Tick ==
    /\ now < MaxTime
    /\ now' = now + 1
    /\ last' = [op |-> "tick"]
    /\ UNCHANGED <<core_action, core_actionfield, pages, tables, arg>>

CallNeedsRecreating(page_id, column_list) ==
    /\ \E outcome \in survey_table_needs_recreating(page_id, column_list) :
          last' = [op |-> "survey_table_needs_recreating", page_id |-> page_id,
                   column_list |-> column_list, returned |-> outcome]
    /\ UNCHANGED <<dbvars, arg>>

CallSurveysThatNeedUpdating(count) ==
    /\ last' = [op |-> "surveys_that_need_updating", count |-> count,
                returned |-> surveys_that_need_updating(count)]
    /\ UNCHANGED <<dbvars, arg>>

\* the call before this one merged the same actions into the same page
MergedBefore(page_id, actions) ==
    /\ last.op = "process_recent_actions_for_survey"
    /\ last.page_id = page_id
    /\ last.actions = actions
    /\ last.returned.outcome = "processed"

\* one call of process_recent_actions_for_survey; the call is recorded in
\* full, or by its name only where the queries are under study
Process(page_id, since, in_full) ==
    /\ \E actions \in recent_actions_for_survey(page_id, since) :
          LET call(returned) ==
                  IF in_full
                  THEN [op |-> "process_recent_actions_for_survey",
                        page_id |-> page_id, since |-> since,
                        actions |-> actions, returned |-> returned,
                        again |-> MergedBefore(page_id, actions)]
                  ELSE [op |-> "process_recent_actions_for_survey"]
          IN  IF actions = <<>>
              THEN /\ pages' = update_pages_table_refresh(pages, page_id, now)
                   /\ tables' = tables
                   /\ last' = call([outcome |-> "None"])
              ELSE \E needs_recreating \in
                          survey_table_needs_recreating(page_id, batch_slugs(actions)) :
                      LET done == process_actions(page_id, actions, needs_recreating)
                      IN  /\ pages' = done.pages
                          /\ tables' = done.tables
                          /\ last' = call(done.returned)
    /\ UNCHANGED <<core_action, core_actionfield, now, arg>>

CallProcess(page_id, since) == Process(page_id, since, TRUE)

Arrive ==
    \E page_id \in DOMAIN core_page, created_at \in 1..now, fields \in FieldBundles :
        /\ core_page[page_id] # "Survey" => fields = <<>>
        /\ AddAction(page_id, created_at, fields)

Next ==
    \/ Arrive
    \/ Tick
    \/ \E page_id \in PageIds, since \in Epoch..MaxTime : CallProcess(page_id, since)

NextQueries ==
    \/ Arrive
    \/ Tick
    \/ \E page_id \in PageIds, since \in Epoch..MaxTime : Process(page_id, since, FALSE)
    \/ \E page_id \in PageIds, column_list \in CandidateColumns :
            CallNeedsRecreating(page_id, column_list)
    \/ \E count \in 1..MaxLimit : CallSurveysThatNeedUpdating(count)

SpecQueries == Init /\ [][NextQueries]_vars

Spec == Init /\ [][Next]_vars

---------------------------------------------------------------------------
(* Inputs of a merge: the field values field_values_for_actions fetched    *)
(* for records 1 and 2 of page 2, under a COLUMN_EXCLUDES that names none  *)
(* of their field names (the empty name is excluded when the setting is    *)
(* the empty string, whose split is ['']), and the table and registry row  *)
(* a rebuild made for these field names                                    *)

\* field values in one fetched list
MaxAnswers == 3

FetchedAnswers ==
    [action_id : {1, 2}, name : {<<>>, <<"a">>, <<"b">>}, value : {"x", "y"}]

\* field_names of column_list_for_survey for these field values
NamesOf(field_values) == {field_values[i].name : i \in DOMAIN field_values}

InitAnswers ==
    /\ arg \in SeqsUpTo(FetchedAnswers, MaxAnswers)
    /\ LET all_columns == sluggified_field_names(SortedNames(NamesOf(arg)))
       IN  /\ tables = [p \in PageIds |->
                          IF p = 2
                          THEN [exists |-> TRUE, columns |-> all_columns, rows |-> NoRows]
                          ELSE NoTable]
           /\ pages = add_to_pages_table(NoRows, 2, all_columns)
    /\ core_action = {[id |-> i, page_id |-> 2, created_at |-> 1] : i \in {1, 2}}
    /\ core_actionfield = [i \in DOMAIN arg |->
                             [parent_id |-> arg[i].action_id, name |-> arg[i].name,
                              value |-> arg[i].value]]
    /\ now = 1
    /\ last = NoCall

\* process_recent_actions_for_survey from the fetched field values on, for
\* a batch the comparator finds no new column in
CallMerge ==
    /\ last.op = "none"
    /\ LET action_ids  == <<1, 2>>
           field_names == unique_field_names(arg)
           field_slugs == sluggified_field_names(field_names)
           inserted    == insert_rows_from_field_values(2,
                              field_values_by_action(arg,
                                  DictZip(field_names, field_slugs), action_ids),
                              field_slugs)
       IN  /\ survey_table_needs_recreating(2, field_slugs)
                 = {[status |-> "ok", result |-> FALSE]}
           /\ tables' = inserted.tables
           /\ last' = [op |-> "insert_rows_from_field_values",
                       status |-> inserted.status]
    /\ UNCHANGED <<core_action, core_actionfield, pages, now, arg>>

NextAnswers == CallMerge

SpecAnswers == InitAnswers /\ [][NextAnswers]_vars

---------------------------------------------------------------------------
(* The dispatcher, one commit at a time: main runs                         *)
(* process_surveys_that_need_updating over and over, and every call of     *)
(* process_recent_actions_for_survey it makes is taken one database commit *)
(* at a time. arg holds the run in progress: the surveys still to process  *)
(* and the local variables of the call in progress                         *)

\* records in the database of the dispatcher
MaxRecords == 3

\* the count main passes to surveys_that_need_updating, scaled down from 15
PassCount == 2

\* the field values a record of the dispatcher's database can come with
DispatchBundles ==
    { <<>>,
      << [name |-> <<"a">>, value |-> "x"] >>,
      << [name |-> <<"b">>, value |-> "x"] >> }

\* no run in progress; crashed tells whether a run was ever stopped
Idle(crashed) == [pc |-> "idle", surveys |-> <<>>, crashed |-> crashed, frame |-> <<>>]

InitDispatch ==
    /\ EmptyDb
    /\ last = NoCall
    /\ arg = Idle(FALSE)

\* delete_query that matches no row
delete_query_of_nothing(page_id, action_ids) ==
    IF ~tables[page_id].exists THEN [status |-> "DatabaseError", tables |-> tables]
    ELSE [status |-> "ok", tables |-> tables]

\* delete_query of insert_rows_from_field_values and its commit
delete_query(page_id, action_ids) ==
    LET table == tables[page_id]
        kept  == RowsWhere(table.rows, LAMBDA r : r.action_id \notin action_ids)
    IN  IF ~table.exists THEN [status |-> "DatabaseError", tables |-> tables]
        ELSE [status |-> "ok",
              tables |-> [tables EXCEPT ![page_id] = [table EXCEPT !.rows = kept]]]

\* insert_query of insert_rows_from_field_values and its commit
insert_query(page_id, field_values, column_names) ==
    LET table == tables[page_id]
        row(action_id) ==
            [action_id |-> action_id,
             cells |-> [c \in SeqToSet(table.columns) |->
                          IF c \in SeqToSet(column_names)
                          THEN DictGet(field_values[action_id], c, "")
                          ELSE NULL]]
        inserted == [table EXCEPT !.rows =
                      table.rows (+) SetToBag({row(a) : a \in DOMAIN field_values})]
    IN  IF \/ ~table.exists
           \/ HasDuplicates(<<action_id_column>> \o column_names)
           \/ ~(SeqToSet(column_names) \subseteq SeqToSet(table.columns))
        THEN [status |-> "DatabaseError", tables |-> tables]
        ELSE [status |-> "ok", tables |-> [tables EXCEPT ![page_id] = inserted]]

\* a record arrives whose created_at is not earlier than the timestamp the
\* registry holds for its page
AddRecord(page_id, created_at, fields) ==
    /\ Cardinality(core_action) < MaxRecords
    /\ created_at >= (IF RegistryRows(page_id) = {} THEN Epoch
                      ELSE (CHOOSE r \in RegistryRows(page_id) : TRUE).last_refresh)
    /\ LET id == Cardinality(core_action) + 1
       IN  /\ core_action' = core_action \cup
                 {[id |-> id, page_id |-> page_id, created_at |-> created_at]}
           /\ core_actionfield' = core_actionfield \o
                 [i \in DOMAIN fields |->
                     [parent_id |-> id, name |-> fields[i].name, value |-> fields[i].value]]
    /\ last' = [op |-> "add"]
    /\ UNCHANGED <<pages, tables, now, arg>>

ArriveDispatch ==
    \E page_id \in {p \in DOMAIN core_page : core_page[p] = "Survey"},
       created_at \in 1..now, fields \in DispatchBundles :
        AddRecord(page_id, created_at, fields)

\* main: surveys = ak.surveys_that_need_updating(15)
StartPass ==
    /\ arg.pc = "idle"
    /\ LET surveys == surveys_that_need_updating(PassCount)
       IN  arg' = [arg EXCEPT !.surveys = surveys,
                              !.pc = IF surveys = <<>> THEN "idle" ELSE "call"]
    /\ last' = [op |-> "surveys_that_need_updating"]
    /\ UNCHANGED dbvars

\* the call for the first survey of the list has returned
Returned ==
    [pc |-> IF Len(arg.surveys) > 1 THEN "call" ELSE "idle",
     surveys |-> Tail(arg.surveys), crashed |-> arg.crashed, frame |-> <<>>]

\* the call in progress is at pc with these local variables
At(pc, frame) == [arg EXCEPT !.pc = pc, !.frame = frame]

\* process_recent_actions_for_survey on the list of actions it fetched and
\* the outcome of its schema comparison, up to its first commit: the new
\* registry, the new tables and where the run is then; an exception ends
\* the run, main reports it
first_commit(page_id, actions, needs_recreating) ==
    LET action_ids   == [i \in DOMAIN actions |-> actions[i].id]
        field_values == field_values_for_actions(action_ids)
        field_names  == unique_field_names(field_values)
        field_slugs  == sluggified_field_names(field_names)
        all_columns  == column_list_for_survey(page_id)
        recreated    == recreate_survey_table(page_id, all_columns)
        deleted      == delete_query(page_id, SeqToSet(action_ids))
        rebuild(missing) ==
            [pages |-> pages, tables |-> recreated.tables,
             arg |-> IF recreated.status # "ok" THEN Idle(arg.crashed)
                     ELSE At("recreated", [page_id |-> page_id, missing |-> missing,
                                           all_columns |-> all_columns])]
    IN  IF needs_recreating.status = "PageNotLoaded" THEN rebuild(TRUE)
        ELSE IF needs_recreating.status # "ok"
        THEN [pages |-> pages, tables |-> tables, arg |-> Idle(arg.crashed)]
        ELSE IF needs_recreating.result THEN rebuild(FALSE)
        ELSE [pages |-> pages, tables |-> deleted.tables,
              arg |-> IF deleted.status # "ok" THEN Idle(arg.crashed)
                      ELSE At("rows_deleted",
                              [page_id |-> page_id, actions |-> actions,
                               field_values |-> field_values_by_action(field_values,
                                   DictZip(field_names, field_slugs), action_ids),
                               field_slugs |-> field_slugs])]

\* what the call for a survey can have done at its first commit, or when it
\* returns without one
first_commits(page_id, since) ==
    UNION {IF actions = <<>>
           THEN {[pages |-> update_pages_table_refresh(pages, page_id, now),
                  tables |-> tables, arg |-> Returned]}
           ELSE {first_commit(page_id, actions, needs_recreating) : needs_recreating \in
                    survey_table_needs_recreating(page_id, batch_slugs(actions))}
           : actions \in recent_actions_for_survey(page_id, since)}

\* process_recent_actions_for_survey is called for the first survey of the
\* list
CallForSurvey ==
    /\ arg.pc = "call"
    /\ \E done \in first_commits(arg.surveys[1].page_id, arg.surveys[1].since) :
          /\ pages' = done.pages
          /\ tables' = done.tables
          /\ arg' = done.arg
    /\ last' = [op |-> "process_recent_actions_for_survey"]
    /\ UNCHANGED <<core_action, core_actionfield, now>>

\* self.delete_from_pages_table(page_id) of the rebuild for added columns
CommitDeleteRegistry ==
    /\ arg.pc = "recreated"
    /\ ~arg.frame.missing
    /\ pages' = delete_from_pages_table(pages, arg.frame.page_id)
    /\ arg' = At("registry_deleted", arg.frame)
    /\ last' = [op |-> "delete_from_pages_table"]
    /\ UNCHANGED <<core_action, core_actionfield, tables, now>>

\* self.add_to_pages_table(page_id, all_columns), and the call returns
CommitAddRegistry ==
    /\ \/ arg.pc = "registry_deleted"
       \/ arg.pc = "recreated" /\ arg.frame.missing
    /\ pages' = add_to_pages_table(pages, arg.frame.page_id, arg.frame.all_columns)
    /\ arg' = Returned
    /\ last' = [op |-> "add_to_pages_table"]
    /\ UNCHANGED <<core_action, core_actionfield, tables, now>>

\* the INSERT of insert_rows_from_field_values and its commit
CommitInsertRows ==
    /\ arg.pc = "rows_deleted"
    /\ LET inserted == insert_query(arg.frame.page_id, arg.frame.field_values,
                                    arg.frame.field_slugs)
       IN  /\ tables' = inserted.tables
           /\ arg' = IF inserted.status # "ok" THEN Idle(arg.crashed)
                     ELSE At("rows_inserted", arg.frame)
    /\ last' = [op |-> "insert_rows_from_field_values"]
    /\ UNCHANGED <<core_action, core_actionfield, pages, now>>

\* self.update_pages_table_refresh(page_id, self.max_created_at(actions)),
\* and the call returns
CommitUpdateRefresh ==
    /\ arg.pc = "rows_inserted"
    /\ pages' = update_pages_table_refresh(pages, arg.frame.page_id,
                                           max_created_at(arg.frame.actions))
    /\ arg' = Returned
    /\ last' = [op |-> "update_pages_table_refresh"]
    /\ UNCHANGED <<core_action, core_actionfield, tables, now>>

\* the process stops once, between two commits of a call or between two
\* calls of a run; what is committed stays
Crash ==
    /\ arg.pc # "idle"
    /\ ~arg.crashed
    /\ arg' = Idle(TRUE)
    /\ last' = [op |-> "crash"]
    /\ UNCHANGED dbvars

\* one step of the dispatcher
Dispatch ==
    \/ StartPass
    \/ CallForSurvey
    \/ CommitDeleteRegistry
    \/ CommitAddRegistry
    \/ CommitInsertRows
    \/ CommitUpdateRefresh

TickDispatch ==
    /\ now < MaxTime
    /\ now' = now + 1
    /\ last' = [op |-> "tick"]
    /\ UNCHANGED <<core_action, core_actionfield, pages, tables, arg>>

NextDispatch ==
    \/ ArriveDispatch
    \/ TickDispatch
    \/ Dispatch
    \/ Crash

SpecDispatch == InitDispatch /\ [][NextDispatch]_vars

---------------------------------------------------------------------------
(* The dispatcher on a database whose records have no field values: no     *)
(* column is ever added, so a table is created once and then merged into.  *)
(* The dispatcher is run again and again and a run that has started goes   *)
(* on: its steps are weakly fair                                           *)

ArriveBare ==
    \E page_id \in {p \in DOMAIN core_page : core_page[p] = "Survey"},
       created_at \in 1..now :
        AddRecord(page_id, created_at, <<>>)

\* one step of the dispatcher where no column is ever added
DispatchBare ==
    \/ StartPass
    \/ CallForSurvey
    \/ CommitAddRegistry
    \/ CommitInsertRows
    \/ CommitUpdateRefresh

NextBacklog ==
    \/ ArriveBare
    \/ TickDispatch
    \/ DispatchBare

SpecBacklogFair == InitDispatch /\ [][NextBacklog]_vars /\ WF_vars(DispatchBare)

NextCrash ==
    \/ ArriveBare
    \/ TickDispatch
    \/ DispatchBare
    \/ Crash

SpecCrashFair == InitDispatch /\ [][NextCrash]_vars /\ WF_vars(DispatchBare)

---------------------------------------------------------------------------
(* The dispatcher on records with field values, run again and again        *)
(* without ever being stopped: every commit of a call that has started is  *)
(* made, and a call that main is about to make is made. Only one step of   *)
(* the dispatcher is possible at a time, so this is weak fairness of       *)
(* Dispatch; the call is possible exactly when arg.pc is "call", and each  *)
(* call shortens the list of surveys, so that the fairness of              *)
(* CallForSurvey is []<>(arg.pc # "call")                                  *)

NextRebuild ==
    \/ ArriveDispatch
    \/ TickDispatch
    \/ Dispatch

SpecRebuildFair ==
    /\ InitDispatch
    /\ [][NextRebuild]_vars
    /\ WF_vars(StartPass)
    /\ WF_vars(CommitDeleteRegistry)
    /\ WF_vars(CommitAddRegistry)
    /\ WF_vars(CommitInsertRows)
    /\ WF_vars(CommitUpdateRefresh)
    /\ []<>(arg.pc # "call")

---------------------------------------------------------------------------
(* Two workers, each making calls of process_recent_actions_for_survey one *)
(* commit at a time, never both for one page. arg holds the worker that    *)
(* takes the next step and, in parked, the other one; expected is what the *)
(* call in progress leaves of its page when nothing runs between its       *)
(* commits                                                                 *)

NoWorker == [pc |-> "idle", surveys |-> <<>>, frame |-> <<>>, expected |-> <<>>]

InitWorkers ==
    /\ EmptyDb
    /\ last = NoCall
    /\ arg = [pc |-> "idle", surveys |-> <<>>, crashed |-> FALSE, frame |-> <<>>,
              expected |-> <<>>, parked |-> NoWorker]

\* the page a worker is making a call for
Held(worker) == {worker.surveys[i].page_id : i \in DOMAIN worker.surveys}

\* where the worker is after a step, from where a run of the dispatcher
\* would be after it
Resume(next, expected) ==
    [pc |-> next.pc, surveys |-> next.surveys, crashed |-> FALSE,
     frame |-> next.frame, expected |-> expected, parked |-> arg.parked]

\* the registry rows and the table of a page in the outcome of a call
LeftOfPage(page_id, done) ==
    [rows |-> RowsWhere(done.pages, LAMBDA r : r.page_id = page_id),
     table |-> done.tables[page_id]]

\* a worker is given one of the surveys that need updating, one the other
\* worker is not making a call for
WorkerStart ==
    /\ arg.pc = "idle"
    /\ LET surveys == surveys_that_need_updating(PassCount)
       IN  \E i \in DOMAIN surveys :
              /\ surveys[i].page_id \notin Held(arg.parked)
              /\ arg' = [arg EXCEPT !.pc = "call", !.surveys = <<surveys[i]>>,
                                    !.expected = <<>>]
    /\ last' = [op |-> "surveys_that_need_updating"]
    /\ UNCHANGED dbvars

\* process_recent_actions_for_survey is called, up to its first commit
WorkerCall ==
    /\ arg.pc = "call"
    /\ LET page_id == arg.surveys[1].page_id
       IN  \E actions \in recent_actions_for_survey(page_id, arg.surveys[1].since) :
              IF actions = <<>>
              THEN LET done == [pages |-> update_pages_table_refresh(pages, page_id, now),
                                tables |-> tables]
                   IN  /\ pages' = done.pages
                       /\ tables' = tables
                       /\ arg' = Resume(Returned, LeftOfPage(page_id, done))
              ELSE \E needs_recreating \in
                          survey_table_needs_recreating(page_id, batch_slugs(actions)) :
                      LET done == first_commit(page_id, actions, needs_recreating)
                          whole == process_actions(page_id, actions, needs_recreating)
                      IN  /\ pages' = done.pages
                          /\ tables' = done.tables
                          /\ arg' = Resume(done.arg, LeftOfPage(page_id, whole))
    /\ last' = [op |-> "process_recent_actions_for_survey"]
    /\ UNCHANGED <<core_action, core_actionfield, now>>

\* self.add_to_pages_table(page_id, all_columns), and the call returns
WorkerAddRegistry ==
    /\ \/ arg.pc = "registry_deleted"
       \/ arg.pc = "recreated" /\ arg.frame.missing
    /\ pages' = add_to_pages_table(pages, arg.frame.page_id, arg.frame.all_columns)
    /\ arg' = Resume(Returned, arg.expected)
    /\ last' = [op |-> "add_to_pages_table"]
    /\ UNCHANGED <<core_action, core_actionfield, tables, now>>

\* the INSERT of insert_rows_from_field_values and its commit
WorkerInsertRows ==
    /\ arg.pc = "rows_deleted"
    /\ LET inserted == insert_query(arg.frame.page_id, arg.frame.field_values,
                                    arg.frame.field_slugs)
       IN  /\ tables' = inserted.tables
           /\ arg' = IF inserted.status # "ok" THEN Resume(Idle(FALSE), arg.expected)
                     ELSE At("rows_inserted", arg.frame)
    /\ last' = [op |-> "insert_rows_from_field_values"]
    /\ UNCHANGED <<core_action, core_actionfield, pages, now>>

\* self.update_pages_table_refresh(page_id, self.max_created_at(actions)),
\* and the call returns
WorkerUpdateRefresh ==
    /\ arg.pc = "rows_inserted"
    /\ pages' = update_pages_table_refresh(pages, arg.frame.page_id,
                                           max_created_at(arg.frame.actions))
    /\ arg' = Resume(Returned, arg.expected)
    /\ last' = [op |-> "update_pages_table_refresh"]
    /\ UNCHANGED <<core_action, core_actionfield, tables, now>>

\* the other worker takes the next step
Switch ==
    /\ arg.pc # "idle" \/ arg.parked.pc # "idle"
    /\ arg' = [pc |-> arg.parked.pc, surveys |-> arg.parked.surveys,
               crashed |-> FALSE, frame |-> arg.parked.frame,
               expected |-> arg.parked.expected,
               parked |-> [pc |-> arg.pc, surveys |-> arg.surveys,
                           frame |-> arg.frame, expected |-> arg.expected]]
    /\ last' = [op |-> "switch"]
    /\ UNCHANGED dbvars

\* one step of the worker whose turn it is
Work ==
    \/ WorkerStart
    \/ WorkerCall
    \/ CommitDeleteRegistry
    \/ WorkerAddRegistry
    \/ WorkerInsertRows
    \/ WorkerUpdateRefresh

NextWorkers ==
    \/ ArriveDispatch
    \/ TickDispatch
    \/ Work
    \/ Switch

SpecWorkers == InitWorkers /\ [][NextWorkers]_vars

---------------------------------------------------------------------------
(* Databases set up as the test sets one up: the rows of the registry and  *)
(* of the destination tables are written by hand, and survey_refresh_info  *)
(* is called                                                               *)

\* the records the set-up can store
FixtureActions ==
    { [id |-> 1, page_id |-> 1, created_at |-> 1],
      [id |-> 2, page_id |-> 2, created_at |-> 1],
      [id |-> 3, page_id |-> 3, created_at |-> 1],
      [id |-> 4, page_id |-> 3, created_at |-> 2] }

\* how the set-up leaves a Survey page: with nothing stored for it (pages 2
\* and 3 of the test), with a registry row and a table (page 4), with a
\* registry row and no table (page 5)
FixtureLoads == {"none", "loaded", "registered"}

\* the column of page_4
processed == <<"p","r","o","c","e","s","s","e","d">>

FixtureRegistry(load) ==
    SetToBag({[page_id |-> p, column_list |-> processed, last_refresh |-> 1] :
                 p \in {q \in DOMAIN load : load[q] # "none"}})

FixtureTables(load, saved) ==
    [p \in PageIds |->
        IF p \in DOMAIN load /\ load[p] = "loaded"
        THEN [exists |-> TRUE, columns |-> <<processed>>,
              rows |-> SetToBag({[action_id |-> a.id,
                                  cells |-> [c \in {processed} |-> "yes"]] :
                                    a \in {x \in FixtureActions :
                                             x.page_id = p /\ x.id \in saved}})]
        ELSE NoTable]

InitInfo ==
    /\ core_action \in SUBSET FixtureActions
    /\ core_actionfield = <<>>
    /\ \E load \in [{p \in DOMAIN core_page : core_page[p] = "Survey"} -> FixtureLoads],
          saved \in SUBSET {a.id : a \in FixtureActions} :
            /\ pages = FixtureRegistry(load)
            /\ tables = FixtureTables(load, saved)
    /\ now = 1
    /\ last = NoCall
    /\ arg = <<>>

CallSurveyRefreshInfo(page_id) ==
    /\ \E outcome \in survey_refresh_info(page_id) :
          last' = [op |-> "survey_refresh_info", page_id |-> page_id,
                   returned |-> outcome]
    /\ UNCHANGED <<dbvars, arg>>

NextInfo == \E page_id \in PageIds : CallSurveyRefreshInfo(page_id)

SpecInfo == InitInfo /\ [][NextInfo]_vars

---------------------------------------------------------------------------
(* Claims about the identifier normalizer *)

IsPrefix(p, s) == Len(p) <= Len(s) /\ SubSeq(s, 1, Len(p)) = p

Sluggified == last.op = "sluggified_field_names"

\* the slug of the i-th name of the batch, and its name before the suffix
SlugOf(i) == custom_slugify(arg[i])

NameOf(i) == column_name(SlugOf(i))

\* how many of the first i names of the batch have the same name as the i-th
Occurrence(i) == Cardinality({j \in 1..i : NameOf(j) = NameOf(i)})

\* C1: the normalizer returns as many identifiers as it was given names, and
\* the identifiers of one batch are pairwise distinct.
C1_LengthAndUnique ==
    Sluggified =>
        /\ Len(last.result) = Len(arg)
        /\ \A i, j \in DOMAIN last.result :
              i # j => last.result[i] # last.result[j]

\* C2: the k-th occurrence (k >= 2) of a name in one batch is emitted as the
\* name followed by k.
C2_KthOccurrenceSuffix ==
    Sluggified =>
        \A i \in DOMAIN arg :
            Occurrence(i) >= 2 => last.result[i] = NameOf(i) \o Str(Occurrence(i))

\* C3: no identifier returned by the normalizer is empty, reserved or starts
\* with a digit: the empty slug becomes unnamed_field, a reserved slug gets
\* _q appended, a slug starting with a digit gets q_ prepended, and the
\* duplicate suffix only follows that name.
C3_SafeIdentifiers ==
    Sluggified =>
        \A i \in DOMAIN arg :
            LET slug == SlugOf(i)
                out  == last.result[i]
            IN  /\ out # <<>>
                /\ out \notin reserved_keywords
                /\ ~IsDigit(out[1])
                /\ slug = <<>> => IsPrefix(unnamed_field, out)
                /\ slug \in reserved_keywords => IsPrefix(slug \o <<"_","q">>, out)
                /\ (slug # <<>> /\ IsDigit(slug[1])) => IsPrefix(<<"q","_">> \o slug, out)

\* a batch with an empty, a reserved and a digit-leading slug, one of them
\* repeated
C3_Witness ==
    /\ Sluggified
    /\ \E i, j, k \in DOMAIN arg :
          /\ SlugOf(i) = <<>>
          /\ SlugOf(j) \in reserved_keywords
          /\ SlugOf(k) # <<>>
          /\ IsDigit(SlugOf(k)[1])
          /\ \E m \in DOMAIN arg : Occurrence(m) >= 2

---------------------------------------------------------------------------
(* Claims about the schema comparator *)

Compared == last.op = "survey_table_needs_recreating"

RegistryRowsIn(registry, page_id) == {r \in DOMAIN registry : r.page_id = page_id}

\* what the claim expects of the comparator in the current database
ExpectedComparison(page_id, column_list, returned) ==
    IF page_id \notin DOMAIN core_page THEN returned.status = "PageNotFound"
    ELSE IF core_page[page_id] # "Survey" THEN returned.status = "PageNotSurvey"
    ELSE IF RegistryRows(page_id) = {} THEN returned.status = "PageNotLoaded"
    ELSE /\ returned.status = "ok"
         /\ returned.result =
               (\E c \in SeqToSet(column_list) : c \notin SeqToSet(tables[page_id].columns))

---------------------------------------------------------------------------
(* Claims about process_recent_actions_for_survey *)

RebuiltIn(call) ==
    /\ call.op = "process_recent_actions_for_survey"
    /\ call.returned.outcome = "survey schema updated"

MergedIn(call) ==
    /\ call.op = "process_recent_actions_for_survey"
    /\ call.returned.outcome = "processed"

\* the number of rows of a table with a given action identifier
RowsOfAction(table, action_id) ==
    RowCount(RowsWhere(table.rows, LAMBDA r : r.action_id = action_id))

\* C5 as stated: a call that reports "schema updated" inserts no row and
\* leaves the registry timestamp of the page as it was.
C5_WatermarkUntouched ==
    [][RebuiltIn(last') =>
          /\ tables'[last'.page_id].rows = NoRows
          /\ \A r \in RegistryRows(last'.page_id) :
                \A q \in RegistryRowsIn(pages', last'.page_id) :
                    q.last_refresh = r.last_refresh]_vars

\* C5 amended: a call that reports "schema updated" leaves the destination
\* table of the page freshly created, with no row, and leaves one registry
\* row for the page whose timestamp is 1900-01-01 00:00:00, whatever the
\* timestamp was before.
C5_WatermarkReset ==
    [][RebuiltIn(last') =>
          /\ tables'[last'.page_id].exists
          /\ tables'[last'.page_id].rows = NoRows
          /\ RowCount(RowsWhere(pages', LAMBDA r : r.page_id = last'.page_id)) = 1
          /\ \A q \in RegistryRowsIn(pages', last'.page_id) :
                q.last_refresh = Epoch]_vars

\* a rebuild for new columns has run on a page that was loaded before
C5_Witness ==
    /\ RebuiltIn(last)
    /\ last.returned.reason = "column(s) added"
    /\ last.actions # <<>>

\* C6: on a Survey page with records and no registry row, a first call with
\* since = 1900-01-01 reports "schema updated" and leaves the table empty,
\* and the call after it with the same since reports "processed" with all
\* the records of the page, after which the table has a row for each.
C6_RebuildThenReprocess ==
    [][/\ ( /\ last'.op = "process_recent_actions_for_survey"
            /\ last'.since = Epoch
            /\ last'.page_id \in DOMAIN core_page
            /\ core_page[last'.page_id] = "Survey"
            /\ RegistryRows(last'.page_id) = {}
            /\ ActionsOfPage(last'.page_id) # {} )
          => /\ last'.returned.outcome = "survey schema updated"
             /\ tables'[last'.page_id].rows = NoRows
       /\ ( /\ RebuiltIn(last)
            /\ last.returned.reason = "survey schema missing"
            /\ last.since = Epoch
            /\ last'.op = "process_recent_actions_for_survey"
            /\ last'.page_id = last.page_id
            /\ last'.since = last.since )
          => /\ last'.returned.outcome = "processed"
             /\ last'.returned.actions = Cardinality(ActionsOfPage(last.page_id))
             /\ RowCount(tables'[last.page_id].rows)
                    = Cardinality(ActionsOfPage(last.page_id))]_vars

\* the comparator finds no drift for the batch of a call
NoDrift(page_id, actions) ==
    /\ actions # <<>>
    /\ survey_table_needs_recreating(page_id, batch_slugs(actions))
           = {[status |-> "ok", result |-> FALSE]}

\* C7: a call that finds a non-empty batch and no drift reports "processed"
\* with the size of the batch, leaves exactly one row for every record of
\* the batch, all of whose cells are empty when the record has no field
\* value, and sets the registry timestamp to the largest created_at of the
\* batch.
C7_Merge ==
    [][( /\ last'.op = "process_recent_actions_for_survey"
         /\ NoDrift(last'.page_id, last'.actions) )
       => /\ last'.returned.outcome = "processed"
          /\ last'.returned.actions = Len(last'.actions)
          /\ \A i \in DOMAIN last'.actions :
                LET a == last'.actions[i]
                IN  /\ RowsOfAction(tables'[a.page_id], a.id) = 1
                    /\ a.created_at <= max_created_at(last'.actions)
                    /\ (\A j \in DOMAIN core_actionfield :
                            core_actionfield[j].parent_id # a.id)
                       => \A r \in DOMAIN tables'[a.page_id].rows :
                             r.action_id = a.id =>
                                \A c \in DOMAIN r.cells : r.cells[c] \in {"", NULL}
          /\ \A q \in RegistryRowsIn(pages', last'.page_id) :
                /\ q.last_refresh = max_created_at(last'.actions)
                /\ \E i \in DOMAIN last'.actions :
                      last'.actions[i].created_at = q.last_refresh]_vars

\* C8: a call that merges the batch the call before it merged, into the same
\* page, leaves the tables and the registry as that call left them, with one
\* row for every record of the batch.
C8_MergeIdempotent ==
    [][( /\ MergedIn(last)
         /\ last'.op = "process_recent_actions_for_survey"
         /\ last'.page_id = last.page_id
         /\ last'.actions = last.actions )
       => /\ MergedIn(last')
          /\ tables' = tables
          /\ pages' = pages
          /\ \A i \in DOMAIN last.actions :
                RowsOfAction(tables'[last.page_id], last.actions[i].id) = 1]_vars

\* a batch of two records, one of them with field values, was merged twice
C8_Witness ==
    /\ MergedIn(last)
    /\ last.again
    /\ Len(last.actions) = 2
    /\ \E r \in DOMAIN tables[last.page_id].rows :
          \E c \in DOMAIN r.cells : r.cells[c] \notin {"", NULL}

\* C12: a call for a page with no catalog row raises PageNotFound and a call
\* for a page that is not a Survey raises PageNotSurvey, whatever since is,
\* and such a call leaves the tables and the registry as they were.
C12_ErrorsSurfaced ==
    [][( /\ last'.op = "process_recent_actions_for_survey"
         /\ \/ last'.page_id \notin DOMAIN core_page
            \/ core_page[last'.page_id] # "Survey" )
       => /\ last'.returned.outcome =
                IF last'.page_id \notin DOMAIN core_page
                THEN "PageNotFound" ELSE "PageNotSurvey"
          /\ tables' = tables
          /\ pages' = pages]_vars

\* the rows of the registry for a page, and the rows for the other pages
RowsOfPage(registry, page_id) == RowsWhere(registry, LAMBDA r : r.page_id = page_id)

RowsOfOtherPages(registry, page_id) == RowsWhere(registry, LAMBDA r : r.page_id # page_id)

EmptyWindowIn(call) ==
    /\ call.op = "process_recent_actions_for_survey"
    /\ call.actions = <<>>

\* C14: a call whose window holds no record leaves every table as it was,
\* leaves the registry rows of the other pages as they were, creates no
\* registry row for a page that has none, and changes nothing in the rows
\* of the page but their timestamp, which becomes the engine's current time.
C14_EmptyWindow ==
    [][EmptyWindowIn(last') =>
          /\ tables' = tables
          /\ UNCHANGED <<core_action, core_actionfield, now>>
          /\ RowsOfOtherPages(pages', last'.page_id) = RowsOfOtherPages(pages, last'.page_id)
          /\ RowCount(RowsOfPage(pages', last'.page_id))
                = RowCount(RowsOfPage(pages, last'.page_id))
          /\ \A q \in RegistryRowsIn(pages', last'.page_id) :
                /\ q.last_refresh = now
                /\ \E r \in RegistryRows(last'.page_id) : r.column_list = q.column_list
          /\ \A r \in RegistryRows(last'.page_id) :
                \E q \in RegistryRowsIn(pages', last'.page_id) :
                    q.column_list = r.column_list]_vars

\* a call with an empty window moved the timestamp of a loaded page, which
\* has merged rows, past the created_at of all of its records
C14_Witness ==
    /\ EmptyWindowIn(last)
    /\ tables[last.page_id].rows # NoRows
    /\ \E r \in RegistryRows(last.page_id) :
          /\ r.last_refresh = now
          /\ r.column_list # <<>>
          /\ \A a \in ActionsOfPage(last.page_id) : a.created_at < now

\* the comparator finds no drift for any batch of the records of a page
AllBatchesFit(page_id) ==
    \A S \in (SUBSET ActionsOfPage(page_id)) \ {{}} :
        survey_table_needs_recreating(page_id, batch_slugs(ByCreatedAt(S)))
            = {[status |-> "ok", result |-> FALSE]}

\* the column lists the registry holds for a page
ColumnListsIn(registry, page_id) ==
    {r.column_list : r \in RegistryRowsIn(registry, page_id)}

\* C17: right after a call that rebuilt the table of a page the comparator
\* finds no drift for any batch of the records of the page; the call that
\* follows leaves the columns of the table and the column list of the
\* registry, which are all the comparator reads, as they are, and does not
\* rebuild when it is for the same page.
C17_NoSecondRebuild ==
    [][RebuiltIn(last) =>
          /\ AllBatchesFit(last.page_id)
          /\ last'.op = "process_recent_actions_for_survey" =>
                /\ tables'[last.page_id].exists
                /\ tables'[last.page_id].columns = tables[last.page_id].columns
                /\ ColumnListsIn(pages', last.page_id)
                      = ColumnListsIn(pages, last.page_id)
                /\ last'.page_id = last.page_id => ~RebuiltIn(last')]_vars

\* a table was rebuilt for added columns on a page with two records whose
\* field names differ, and the call before rebuilt it too, for fewer records
C17_Witness ==
    /\ RebuiltIn(last)
    /\ last.returned.reason = "column(s) added"
    /\ Cardinality(ActionsOfPage(last.page_id)) = 2
    /\ Len(tables[last.page_id].columns) >= 2
    /\ \E a, b \in ActionsOfPage(last.page_id) :
          batch_slugs(<<a>>) # batch_slugs(<<b>>) /\ batch_slugs(<<a>>) # <<>>

---------------------------------------------------------------------------
(* Claims about field_values_by_action *)

RECURSIVE JoinValues(_)
JoinValues(values) ==
    IF values = <<>> THEN ""
    ELSE IF Len(values) = 1 THEN values[1]
    ELSE values[1] \o "; " \o JoinValues(Tail(values))

\* the values of the field values of a record that the map sends to a column
ValuesFor(field_values, name_map, action_id, column) ==
    LET kept == SelectSeq(field_values,
                    LAMBDA fv : /\ fv.action_id = action_id
                                /\ DictGet(name_map, fv.name, <<>>) = column)
    IN  [i \in DOMAIN kept |-> kept[i].value]

\* C9: every cell is the values of the record's field values for that
\* column, joined with "; " in the order of the list.
C9_CellsJoinAllValues ==
    last.op = "field_values_by_action" =>
        \A action_id \in DOMAIN last.returned :
            \A column \in {DictGet(last.name_map, arg[i].name, <<>>) : i \in DOMAIN arg} :
                LET values == ValuesFor(arg, last.name_map, action_id, column)
                IN  values # <<>> =>
                        /\ column \in DOMAIN last.returned[action_id]
                        /\ last.returned[action_id][column] = JoinValues(values)

---------------------------------------------------------------------------
(* Claims about surveys_that_need_updating *)

Scanned == last.op = "surveys_that_need_updating"

StoredTimestamp(page_id) ==
    IF RegistryRows(page_id) = {} THEN Epoch
    ELSE (CHOOSE r \in RegistryRows(page_id) : TRUE).last_refresh

\* a Survey page with no registry row, or with a record newer than its
\* timestamp
StaleAsStated(page_id) ==
    /\ page_id \in DOMAIN core_page
    /\ core_page[page_id] = "Survey"
    /\ \/ RegistryRows(page_id) = {}
       \/ \E a \in ActionsOfPage(page_id) : a.created_at > StoredTimestamp(page_id)

\* a Survey page with a record, and with no registry row or with a record
\* newer than its timestamp
StaleWithRecords(page_id) ==
    /\ StaleAsStated(page_id)
    /\ ActionsOfPage(page_id) # {}

\* the list is the count largest of the pages that satisfy Stale, largest
\* first, each with its stored timestamp
ScanReturns(returned, count, Stale(_)) ==
    LET stale == {q \in PageIds : Stale(q)}
        listed == {returned[i].page_id : i \in DOMAIN returned}
    IN  /\ Len(returned) = IF Cardinality(stale) < count
                           THEN Cardinality(stale) ELSE count
        /\ listed \subseteq stale
        /\ \A i, j \in DOMAIN returned : i < j => returned[i].page_id > returned[j].page_id
        /\ \A q \in stale \ listed : \A l \in listed : q < l
        /\ \A i \in DOMAIN returned :
              returned[i].since = StoredTimestamp(returned[i].page_id)

\* C10 as stated: a Survey page with no registry row is listed whether or
\* not it has records.
C10_ScanAsStated ==
    Scanned => ScanReturns(last.returned, last.count, StaleAsStated)

\* C10 amended: a Survey page is listed only if it has at least one record.
C10_Scan ==
    Scanned => ScanReturns(last.returned, last.count, StaleWithRecords)

\* the list was cut at count, and a listed page has a registry row
C10_Witness ==
    /\ Scanned
    /\ Len(last.returned) = last.count
    /\ Cardinality({q \in PageIds : StaleWithRecords(q)}) > last.count
    /\ \E i \in DOMAIN last.returned : RegistryRows(last.returned[i].page_id) # {}

---------------------------------------------------------------------------
(* Claims about survey_refresh_info *)

Probed == last.op = "survey_refresh_info"

\* C13: for a Survey page, survey_refresh_info raises PageNotLoaded when the
\* page has no registry row and when it has a registry row but no table, and
\* otherwise returns action_count, the number of records of the page, and
\* saved_count, the number of rows of its table.
C13_RefreshInfo ==
    ( /\ Probed
      /\ last.page_id \in DOMAIN core_page
      /\ core_page[last.page_id] = "Survey" )
    => IF RegistryRows(last.page_id) = {} \/ ~tables[last.page_id].exists
       THEN last.returned.status = "PageNotLoaded"
       ELSE /\ last.returned.status = "ok"
            /\ last.returned.action_count = Cardinality(ActionsOfPage(last.page_id))
            /\ last.returned.saved_count = RowCount(tables[last.page_id].rows)

---------------------------------------------------------------------------
(* Claims about the dispatcher *)

\* surveys_that_need_updating lists no page
StaleListEmpty == surveys_that_need_updating(PassCount) = <<>>

\* C11: when the dispatcher is run again and again and records stop
\* arriving, the list of surveys that need updating becomes empty and stays
\* empty, however many records a page holds and whatever their created_at.
C11_StalePagesVanish == <>[]StaleListEmpty

SurveyPages == {p \in DOMAIN core_page : core_page[p] = "Survey"}

\* between two runs of a dispatcher that was never stopped
PassesCompleted == arg.pc = "idle" /\ ~arg.crashed

\* C15: between two runs of the dispatcher, when records never arrive with
\* a created_at earlier than the registry timestamp of their page, every
\* record whose created_at is not later than the registry timestamp of its
\* page has a row in the table of the page.
C15_WatermarkCovers ==
    PassesCompleted =>
        \A p \in SurveyPages : \A r \in RegistryRows(p) : \A a \in ActionsOfPage(p) :
            a.created_at <= r.last_refresh => RowsOfAction(tables[p], a.id) >= 1

\* the columns a registry row lists
StoredColumns(r) == SeqToSet(Split(r.column_list, ","))

\* the call in progress has committed its DELETE and inserts, or has
\* inserted, the rows of its batch
Merging == arg.pc \in {"rows_deleted", "rows_inserted"}

\* C16: in every state every cell a row of a table holds a value in belongs
\* to a column the registry row of the page lists, and a call that has come
\* to its INSERT names only columns that the registry row lists and the
\* table has.
C16_MergeWithinLayout ==
    /\ \A p \in PageIds : \A row \in DOMAIN tables[p].rows :
          \A c \in DOMAIN row.cells :
              row.cells[c] # NULL =>
                  /\ RegistryRows(p) # {}
                  /\ \A r \in RegistryRows(p) : c \in StoredColumns(r)
    /\ Merging =>
          /\ RegistryRows(arg.frame.page_id) # {}
          /\ \A r \in RegistryRows(arg.frame.page_id) :
                SeqToSet(arg.frame.field_slugs) \subseteq StoredColumns(r)
          /\ SeqToSet(arg.frame.field_slugs)
                \subseteq SeqToSet(tables[arg.frame.page_id].columns)

\* rows were inserted whose batch names fewer columns than the registry row
\* lists, so that they hold NULL in a column
C16_Witness ==
    /\ arg.pc = "rows_inserted"
    /\ arg.frame.field_slugs # <<>>
    /\ \E r \in RegistryRows(arg.frame.page_id) :
          StoredColumns(r) \ SeqToSet(arg.frame.field_slugs) # {}
    /\ \E row \in DOMAIN tables[arg.frame.page_id].rows :
          \E c, d \in DOMAIN row.cells : row.cells[c] = NULL /\ row.cells[d] = "x"

\* every Survey page that has records has one registry row, whose column
\* list is that of its table, one row in the table for each of its records,
\* and is not listed by needs_update_query
Recovered ==
    \A p \in SurveyPages :
        ActionsOfPage(p) # {} =>
            /\ tables[p].exists
            /\ RowCount(RowsOfPage(pages, p)) = 1
            /\ \A r \in RegistryRows(p) :
                  r.column_list = Join(tables[p].columns, <<",">>)
            /\ \A a \in ActionsOfPage(p) : RowsOfAction(tables[p], a.id) = 1
            /\ \A s \in NeedsUpdateRows : s.page_id # p

\* C18: when the process has stopped once, after any commit of a call, and
\* the dispatcher is run again and again while records stop arriving, the
\* database comes to, and stays in, a state in which every Survey page with
\* records has its registry row and table in agreement, one row for every
\* record, and is not stale.
C18_CrashRecovery == <>[](arg.crashed => Recovered)

\* C19: a page holds at most one registry row, and a step from a state in
\* which a Survey page has a registry row leads to a state in which it has
\* exactly one: no commit of a rebuild leaves the page without its row.
C19_OneRegistryRow ==
    [][\A p \in SurveyPages :
          /\ RowCount(RowsOfPage(pages', p)) <= 1
          /\ RowCount(RowsOfPage(pages, p)) >= 1
                => RowCount(RowsOfPage(pages', p)) = 1]_vars

\* C20: no commit of a merge takes away the row of a record of the page
\* without its replacement: a record that has a row before a commit of a
\* merge has one after it.
C20_DeleteWithInsert ==
    [][arg'.pc \in {"rows_deleted", "rows_inserted"} =>
          \A a \in ActionsOfPage(arg'.frame.page_id) :
              RowsOfAction(tables[arg'.frame.page_id], a.id) >= 1
                 => RowsOfAction(tables'[arg'.frame.page_id], a.id) >= 1]_vars

---------------------------------------------------------------------------
(* Claims about calls for different pages *)

\* a worker has taken a step of its call
Worked(op) == op \notin {"switch", "add", "tick", "surveys_that_need_updating"}

\* C21: a step of a call for a page leaves the registry rows and the table
\* of every other page as they were, and when the call returns or raises,
\* whatever the other worker committed for its own page between the commits
\* of the call, the registry rows and the table of the page are the ones the
\* call leaves when nothing runs between its commits.
C21_PagesApart ==
    [][(arg.pc # "idle" /\ Worked(last'.op)) =>
          /\ \A q \in PageIds \ Held(arg) :
                /\ tables'[q] = tables[q]
                /\ RowsOfPage(pages', q) = RowsOfPage(pages, q)
          /\ arg'.pc = "idle" =>
                \A p \in Held(arg) :
                    /\ RowsOfPage(pages', p) = arg'.expected.rows
                    /\ tables'[p] = arg'.expected.table]_vars

\* a call that rebuilds the table of one page has deleted the registry row
\* of the page while a call that merges into the table of another page has
\* committed its DELETE
C21_Witness ==
    /\ arg.pc = "registry_deleted"
    /\ arg.parked.pc = "rows_deleted"
    /\ Held(arg) # Held(arg.parked)
    /\ \A p \in Held(arg) : RegistryRows(p) = {} /\ tables[p].columns # <<>>
    /\ \A p \in Held(arg.parked) : RegistryRows(p) # {}

---------------------------------------------------------------------------
(* Claims about the rows a rebuild drops *)

\* a call has recreated the table of a page for added columns
RebuildingFor(page_id) ==
    /\ arg.pc = "registry_deleted"
    /\ arg.frame.page_id = page_id

\* every record of a page has a row in the table of the page
Restored(page_id) ==
    \A a \in ActionsOfPage(page_id) : RowsOfAction(tables[page_id], a.id) >= 1

\* C22: when a call has recreated the table of a Survey page for added
\* columns and the dispatcher is run again and again while records stop
\* arriving, the table comes to hold, and keeps, a row for every record of
\* the page.
C22_RowsRestored ==
    /\ RebuildingFor(2) ~> []Restored(2)
    /\ RebuildingFor(3) ~> []Restored(3)

---------------------------------------------------------------------------
(* Claims about the columns of a field name *)

\* the columns column_list_for_survey gives the field names of a page, by
\* field name
ColumnsOfSurvey(names) ==
    DictZip(SortedNames(names), sluggified_field_names(SortedNames(names)))

\* the name_map process_recent_actions_for_survey passes to
\* field_values_by_action for a batch with these field names
batch_name_map(names) ==
    DictZip(SortedNames(names \ {<<>>}),
            sluggified_field_names(SortedNames(names \ {<<>>})))

\* C23: when the field names of a page give a column list the engine
\* accepts, every batch of the page maps each of its field names to the
\* column that column_list_for_survey gives that name.
C23_SameColumn ==
    (Sluggified /\ ~HasDuplicates(<<action_id_column>> \o
                      sluggified_field_names(SortedNames(SeqToSet(arg))))) =>
        \A batch \in SUBSET SeqToSet(arg) :
            \A name \in DOMAIN batch_name_map(batch) :
                batch_name_map(batch)[name] = ColumnsOfSurvey(SeqToSet(arg))[name]

---------------------------------------------------------------------------
(* Claims about the rows of a table *)

\* C24: in every state of the dispatcher, stopped or not, a table holds at
\* most one row for an action identifier, and every row it holds is the row
\* of a record of its page.
C24_OneRowPerAction ==
    \A p \in PageIds : \A row \in DOMAIN tables[p].rows :
        /\ RowsOfAction(tables[p], row.action_id) = 1
        /\ \E a \in ActionsOfPage(p) : a.id = row.action_id

\* a call has inserted the row of a record it fetched again: the created_at
\* of the record is the timestamp the registry held, and another record of
\* the batch is later
C24_Witness ==
    /\ arg.pc = "rows_inserted"
    /\ arg.surveys[1].since > Epoch
    /\ Len(arg.frame.actions) = 2
    /\ arg.frame.actions[1].created_at = arg.surveys[1].since
    /\ arg.frame.actions[2].created_at > arg.surveys[1].since
    /\ \A i \in 1..2 :
          RowsOfAction(tables[arg.frame.page_id], arg.frame.actions[i].id) = 1

---------------------------------------------------------------------------
(* Claims about the answers a merge writes *)

\* C25: after a merge, for every record of the batch and every column the
\* rebuild made for one of its field names, the cell of the record's row in
\* that column is the values of the record's field values with that name,
\* joined with "; ", and the cells of the columns the record has no field
\* value for hold no value.
C25_NoAnswerLost ==
    last.op = "insert_rows_from_field_values" =>
        /\ last.status = "ok"
        /\ \A action_id \in {1, 2} :
              \E row \in DOMAIN tables[2].rows :
                  /\ row.action_id = action_id
                  /\ \A column \in SeqToSet(tables[2].columns) :
                        LET values == ValuesFor(arg, ColumnsOfSurvey(NamesOf(arg)),
                                                action_id, column)
                        IN  IF values = <<>> THEN row.cells[column] \in {"", NULL}
                            ELSE row.cells[column] = JoinValues(values)

====
